---- MODULE Spec2Model ----
(***************************************************************************)
(* A model of AIPilot's AI work node: the DeepSeek client (configuration,   *)
(* validation, one request/response cycle, usage accounting) and the        *)
(* AINode that owns a conversation history and drives the client.           *)
(***************************************************************************)
EXTENDS Integers, Sequences, FiniteSets, TLC

VARIABLES
    client,     \* the DeepSeekClient
    node,       \* the AINode that owns the client: role, histroy, prompt parts
    result,     \* what the last operation returned
    posts,      \* the HTTP POSTs the last operation issued
    lastResp,   \* what the service answered to them, if one was issued
    lastOp,     \* the last operation
    okUsages,   \* the usage counters of the successful responses so far
    panicked,   \* the program has panicked
    worknode,   \* the Worknode, where the node is driven through one
    args        \* the arguments of the last call, where the model keeps them

vars ==
    <<client, node, result, posts, lastResp, lastOp, okUsages, panicked,
      worknode, args>>

(***************************************************************************)
(* Bounds of the model.                                                     *)
(***************************************************************************)
\* at most this many client fields differ from DeepSeekClient::new
MaxSetFields == 2
\* at most this many successful responses per behaviour
MaxCalls == 2
\* the history never grows beyond this length
MaxHist == 3
\* a sum of usages has at most this many operands
MaxOperands == 3

(***************************************************************************)
(* Option<T>: None is the empty set, Some(v) the singleton.                 *)
(***************************************************************************)
None == {}
Some(v) == {v}
is_some(o) == o # {}
is_none(o) == o = {}
unwrap(o) == CHOOSE v \in o : TRUE
unwrap_or(o, d) == IF o = {} THEN d ELSE unwrap(o)

(***************************************************************************)
(* f64: a finite value counted in tenths, or NaN.  Every comparison with    *)
(* NaN is false, as in IEEE 754.                                            *)
(***************************************************************************)
F(n) == [nan |-> FALSE, tenths |-> n]
NaN == [nan |-> TRUE, tenths |-> 0]
FLt(a, b) == ~a.nan /\ ~b.nan /\ a.tenths < b.tenths
FGt(a, b) == ~a.nan /\ ~b.nan /\ a.tenths > b.tenths

(***************************************************************************)
(* Results and errors.                                                      *)
(***************************************************************************)
Ok(v) == [ok |-> TRUE, value |-> v]
DeepSeekError(error_type, message) ==
    [ok |-> FALSE, error_type |-> error_type, message |-> message]
NoResult == [ok |-> TRUE, value |-> "unit"]

(***************************************************************************)
(* JSON values, as far as the response handling looks at them.              *)
(***************************************************************************)
JNull == [t |-> "null"]
JStr(s) == [t |-> "str", s |-> s]
JNum(n) == [t |-> "num", n |-> n]
JObj(f) == [t |-> "obj", f |-> f]

is_null(j) == j.t = "null"
is_empty(j) ==
    CASE j.t = "null" -> TRUE
      [] j.t = "str" -> j.s = ""
      [] j.t = "num" -> j.n = 0
      [] j.t = "obj" -> DOMAIN j.f = {}
Index(j, k) == IF j.t = "obj" /\ k \in DOMAIN j.f THEN JNum(j.f[k]) ELSE JNull
as_i64(j) == IF j.t = "num" THEN Some(j.n) ELSE None
to_string(j) ==
    CASE j.t = "str" -> j.s
      [] j.t = "null" -> "null"
      [] OTHER -> "<json>"

(***************************************************************************)
(* DeepSeekUsage                                                            *)
(***************************************************************************)
UsageKeys == {"completion_tokens", "prompt_tokens", "prompt_cache_hit_tokens",
              "prompt_cache_miss_tokens", "total_tokens"}

DeepSeekUsage_new ==
    [completion_tokens |-> 0, prompt_tokens |-> 0, prompt_cache_hit_tokens |-> 0,
     prompt_cache_miss_tokens |-> 0, total_tokens |-> 0]

\* mutant: the cache hits of the right operand are not counted
Add_keeps_cache_hit(self, other) ==
    [completion_tokens |-> self.completion_tokens + other.completion_tokens,
     prompt_tokens |-> self.prompt_tokens + other.prompt_tokens,
     prompt_cache_hit_tokens |-> self.prompt_cache_hit_tokens,
     prompt_cache_miss_tokens |->
         self.prompt_cache_miss_tokens + other.prompt_cache_miss_tokens,
     total_tokens |-> self.total_tokens + other.total_tokens]

Add(self, other) ==
    [completion_tokens |-> self.completion_tokens + other.completion_tokens,
     prompt_tokens |-> self.prompt_tokens + other.prompt_tokens,
     prompt_cache_hit_tokens |->
         self.prompt_cache_hit_tokens + other.prompt_cache_hit_tokens,
     prompt_cache_miss_tokens |->
         self.prompt_cache_miss_tokens + other.prompt_cache_miss_tokens,
     total_tokens |-> self.total_tokens + other.total_tokens]

(***************************************************************************)
(* DeepSeekClient: construction, defaults, validation.                      *)
(***************************************************************************)
DEEPSEEK_API_URL == "https://api.deepseek.com/chat/completions"

DeepSeekClient_new(url, model) ==
    [url |-> url, api_key |-> None, model |-> model,
     frequency_panalty |-> None, max_tokens |-> None, presence_penalty |-> None,
     response_format |-> None, stream |-> None, stream_option |-> None,
     temperature |-> None, top_p |-> None, logprobs |-> FALSE,
     top_logprobs |-> None,
     total_usage |-> DeepSeekUsage_new, last_usage |-> DeepSeekUsage_new]

default_frequency_panalty == F(0)
default_max_tokens == 4096
default_presence_penalty == F(0)
default_response_format == "Text"
default_stream == FALSE
default_temperature == F(10)
default_top_p == F(10)

check_frequency_panalty(c) ==
    IF is_some(c.frequency_panalty)
       /\ (FLt(unwrap(c.frequency_panalty), F(-20))
           \/ FGt(unwrap(c.frequency_panalty), F(20)))
    THEN FALSE ELSE TRUE

check_max_tokens(c) ==
    IF is_some(c.max_tokens)
       /\ (unwrap(c.max_tokens) < 1 \/ unwrap(c.max_tokens) > 8192)
    THEN FALSE ELSE TRUE

check_presence_penalty(c) ==
    IF is_some(c.presence_penalty)
       /\ (FLt(unwrap(c.presence_penalty), F(-20))
           \/ FGt(unwrap(c.presence_penalty), F(20)))
    THEN FALSE ELSE TRUE

\* mutant: any stored stream, also Some(false), lets a stream_option pass
check_stream_option_any_stream(c) == is_none(c.stream_option) \/ is_some(c.stream)

check_stream_option(c) ==
    is_none(c.stream_option)
    \/ (IF is_some(c.stream) THEN unwrap(c.stream) ELSE default_stream)

check_temperature(c) ==
    IF is_some(c.temperature)
       /\ (FLt(unwrap(c.temperature), F(0)) \/ FGt(unwrap(c.temperature), F(20)))
    THEN FALSE ELSE TRUE

check_top_p(c) ==
    IF is_some(c.top_p)
       /\ (FLt(unwrap(c.top_p), F(0)) \/ FGt(unwrap(c.top_p), F(10)))
    THEN FALSE ELSE TRUE

\* mutant: the dependency on logprobs is inverted
check_top_logprobs_inverted(c) == ~c.logprobs \/ is_none(c.top_logprobs)

check_top_logprobs(c) == c.logprobs \/ is_none(c.top_logprobs)

check_params(c) ==
    /\ check_frequency_panalty(c)
    /\ check_max_tokens(c)
    /\ check_presence_penalty(c)
    /\ check_stream_option(c)
    /\ check_temperature(c)
    /\ check_top_p(c)
    /\ check_top_logprobs(c)
    /\ is_some(c.api_key)

(***************************************************************************)
(* Serialization of the request.                                            *)
(***************************************************************************)
ModelToString(m) ==
    IF m = "DeepseekChat" THEN "deepseek-chat" ELSE "deepseek-reasoner"

ResponseFormatToString(f) == IF f = "Text" THEN "text" ELSE "json"

\* a f64 as a JSON number; the json crate writes NaN as null
JsonF64(x) == IF x.nan THEN JNull ELSE x

chats_to_json(chats) ==
    [i \in 1..Len(chats) |-> [content |-> chats[i].content, role |-> chats[i].role]]

into_request_string(c, msg) ==
    [messages |-> msg,
     model |-> ModelToString(c.model),
     frequency_panalty |->
         JsonF64(unwrap_or(c.frequency_panalty, default_frequency_panalty)),
     max_tokens |-> unwrap_or(c.max_tokens, default_max_tokens),
     presence_penalty |->
         JsonF64(unwrap_or(c.presence_penalty, default_presence_penalty)),
     response_format |->
         [type |-> ResponseFormatToString(
                       unwrap_or(c.response_format, default_response_format))],
     stop |-> JNull,
     stream |-> unwrap_or(c.stream, default_stream),
     stream_options |->
         IF is_some(c.stream_option)
         THEN [t |-> "obj", include_usage |-> unwrap(c.stream_option).include_usage]
         ELSE JNull,
     temperature |-> JsonF64(unwrap_or(c.temperature, default_temperature)),
     top_p |-> JsonF64(unwrap_or(c.top_p, default_top_p)),
     tools |-> JNull,
     tool_choice |-> "none",
     logprobs |-> c.logprobs,
     top_logprobs |->
         IF is_some(c.top_logprobs) THEN JNum(unwrap(c.top_logprobs)) ELSE JNull]

(***************************************************************************)
(* What the service may answer to one POST.  A response is a transport      *)
(* failure, or a status with a body; a body is unreadable, is not JSON, or  *)
(* is a JSON document of which the client reads choices[0].message.content, *)
(* usage and error.message.                                                 *)
(***************************************************************************)
TransportError == [kind |-> "transport_error"]
Http(status, body) == [kind |-> "http", status |-> status, body |-> body]

StatusOk == [code |-> 200, text |-> "200 OK"]
StatusUnauthorized == [code |-> 401, text |-> "401 Unauthorized"]
is_success(status) == status.code >= 200 /\ status.code <= 299

BodyUnreadable == [kind |-> "unreadable"]
BodyGarbage == [kind |-> "garbage"]
BodyJson(content, usage, error_message) ==
    [kind |-> "json",
     json |-> [content |-> content, usage |-> usage, error_message |-> error_message]]

\* the message of a non-2xx response, as send_request_raw extracts it
ErrorMessageOf(body) ==
    CASE body.kind = "unreadable" -> "Failed to read error message"
      [] body.kind = "garbage" -> "Failed to parse error message"
      [] OTHER -> to_string(body.json.error_message)

\* mutant: a request that could not be sent is sent once more
send_request_raw_retries(request, api_key, resp) ==
    LET post == [url |-> DEEPSEEK_API_URL,
                 content_type |-> "application/json",
                 authorization |-> "Bearer " \o api_key,
                 body |-> request]
    IN  IF resp.kind = "transport_error"
        THEN [result |-> DeepSeekError("RequestError", "Failed to send request."),
              posts |-> <<post, post>>]
        ELSE IF is_success(resp.status)
        THEN [result |-> Ok(resp), posts |-> <<post>>]
        ELSE [result |->
                  DeepSeekError("RequestError",
                      "Request failed with status: " \o resp.status.text
                          \o ", " \o ErrorMessageOf(resp.body)),
              posts |-> <<post>>]

send_request_raw(request, api_key, resp) ==
    LET post == [url |-> DEEPSEEK_API_URL,
                 content_type |-> "application/json",
                 authorization |-> "Bearer " \o api_key,
                 body |-> request]
    IN  IF resp.kind = "transport_error"
        THEN [result |-> DeepSeekError("RequestError", "Failed to send request."),
              posts |-> <<post>>]
        ELSE IF is_success(resp.status)
        THEN [result |-> Ok(resp), posts |-> <<post>>]
        ELSE [result |->
                  DeepSeekError("RequestError",
                      "Request failed with status: " \o resp.status.text
                          \o ", " \o ErrorMessageOf(resp.body)),
              posts |-> <<post>>]

\* the DeepSeekUsage literal of send_request: the five fields are read in
\* order and the first one that is no integer ends the call
UsageFromJson(usage) ==
    LET field(k) == as_i64(Index(usage, k))
    IN  IF is_none(field("completion_tokens"))
        THEN DeepSeekError("ResponseError",
                 "The response does not contain completion tokens.")
        ELSE IF is_none(field("prompt_tokens"))
        THEN DeepSeekError("ResponseError",
                 "The response does not contain prompt tokens.")
        ELSE IF is_none(field("prompt_cache_hit_tokens"))
        THEN DeepSeekError("ResponseError",
                 "The response does not contain prompt cache hit tokens.")
        ELSE IF is_none(field("prompt_cache_miss_tokens"))
        THEN DeepSeekError("ResponseError",
                 "The response does not contain prompt cache miss tokens.")
        ELSE IF is_none(field("total_tokens"))
        THEN DeepSeekError("ResponseError",
                 "The response does not contain total tokens.")
        ELSE Ok([completion_tokens |-> unwrap(field("completion_tokens")),
                 prompt_tokens |-> unwrap(field("prompt_tokens")),
                 prompt_cache_hit_tokens |-> unwrap(field("prompt_cache_hit_tokens")),
                 prompt_cache_miss_tokens |->
                     unwrap(field("prompt_cache_miss_tokens")),
                 total_tokens |-> unwrap(field("total_tokens"))])

\* mutant: the call stores the default it substituted for an unset option
Outcome_stores_default(c, r, p) ==
    [client |-> [c EXCEPT !.max_tokens =
                               Some(unwrap_or(c.max_tokens, default_max_tokens))],
     result |-> r, posts |-> p, panicked |-> FALSE]

\* the outcome of a call on the client: the client afterwards, the value
\* returned, the POSTs issued, and whether the call panicked
Outcome(c, r, p) == [client |-> c, result |-> r, posts |-> p, panicked |-> FALSE]
Panic(c, p) == [client |-> c, result |-> NoResult, posts |-> p, panicked |-> TRUE]

\* mutant: total_usage is increased by the previous last_usage
RecordUsage_stale(c, usage) ==
    [c EXCEPT !.last_usage = usage,
              !.total_usage = Add(c.total_usage, c.last_usage)]

\* the successful end of send_request
RecordUsage(c, usage) ==
    LET c1 == [c EXCEPT !.last_usage = usage]
    IN  [c1 EXCEPT !.total_usage = Add(c1.total_usage, c1.last_usage)]

\* mutant: last_usage is cleared before the counters are read
UsageIncomplete_clears(c, error, p) ==
    Outcome([c EXCEPT !.last_usage = DeepSeekUsage_new], error, p)

\* a counter is missing: the `?` leaves send_request before last_usage is
\* assigned
UsageIncomplete(c, error, p) == Outcome(c, error, p)

\* send_request after the validation gate
SendValidated(c, chats, resp) ==
    LET request == into_request_string(c, chats_to_json(chats))
    IN  IF is_none(c.api_key) THEN Panic(c, <<>>)
        ELSE
        LET raw == send_request_raw(request, unwrap(c.api_key), resp)
            body == resp.body
            content == body.json.content
            usage == body.json.usage
            parsed == UsageFromJson(usage)
        IN  IF ~raw.result.ok THEN Outcome(c, raw.result, raw.posts)
            ELSE IF body.kind = "unreadable"
            THEN Outcome(c, DeepSeekError("RequestError",
                                "Failed to read response text."), raw.posts)
            ELSE IF body.kind = "garbage"
            THEN Outcome(c, DeepSeekError("RequestError",
                                "Failed to parse response text."), raw.posts)
            ELSE IF is_null(content)
            THEN Outcome(c, DeepSeekError("ResponseError",
                                "The response format is not valid."), raw.posts)
            ELSE IF is_empty(content)
            THEN Outcome(c, DeepSeekError("ResponseError",
                                "The response is empty."), raw.posts)
            ELSE IF is_null(usage)
            THEN Outcome(c, DeepSeekError("ResponseError",
                                "The response does not contain usage statistics."),
                         raw.posts)
            ELSE IF is_empty(usage)
            THEN Outcome(c, DeepSeekError("ResponseError",
                                "The usage statistics is empty."), raw.posts)
            ELSE IF ~parsed.ok THEN UsageIncomplete(c, parsed, raw.posts)
            ELSE Outcome(RecordUsage(c, parsed.value), Ok(body.json), raw.posts)

\* mutant: the validation gate is missing
send_request_ungated(c, chats, resp) == SendValidated(c, chats, resp)

send_request(c, chats, resp) ==
    IF ~check_params(c)
    THEN Outcome(c, DeepSeekError("RequestParamError",
                        "The parameters are not valid."), <<>>)
    ELSE SendValidated(c, chats, resp)

(***************************************************************************)
(* AINode                                                                   *)
(***************************************************************************)
Chat(role, content) == [role |-> role, content |-> content]

AINode_new ==
    [role |-> None, histroy |-> <<>>, prompt_prefix |-> "", prompt_suffix |-> "",
     input |-> ""]

AINodeError(error_type, message) ==
    [ok |-> FALSE, error_type |-> "DeepSeekError", cause |-> error_type,
     message |-> message]

\* Vec::insert(0, x)
InsertFront(h, x) == <<x>> \o h

\* the outcome of a call on the node
NodeOutcome(n, out, r) ==
    [node |-> n, client |-> out.client, result |-> r, posts |-> out.posts,
     panicked |-> out.panicked]

\* mutant: an empty prefix brings no newline
ComposePrompt_trims_prefix(n) ==
    IF n.prompt_prefix = ""
    THEN n.input \o "\n" \o n.prompt_suffix
    ELSE n.prompt_prefix \o "\n" \o n.input \o "\n" \o n.prompt_suffix

\* format!("{}\n{}\n{}", prefix, input, suffix)
ComposePrompt(n) == n.prompt_prefix \o "\n" \o n.input \o "\n" \o n.prompt_suffix

\* mutant: a failed call takes its user turn back
ExecuteFailed_rolls_back(pushed, out) ==
    NodeOutcome(
        [pushed EXCEPT !.histroy = SubSeq(pushed.histroy, 1, Len(pushed.histroy) - 1)],
        out, AINodeError(out.result, "Failed to send request to DeepSeek"))

\* the client failed: map_err and `?` return the wrapped error
ExecuteFailed(pushed, out) ==
    NodeOutcome(pushed, out,
        AINodeError(out.result, "Failed to send request to DeepSeek"))

execute(n, c, resp) ==
    LET prompt == ComposePrompt(n)
        pushed == [n EXCEPT !.histroy = Append(n.histroy, Chat("user", prompt))]
        out == send_request(c, pushed.histroy, resp)
        response_text == to_string(out.result.value.content)
    IN  IF out.panicked THEN NodeOutcome(pushed, out, NoResult)
        ELSE IF ~out.result.ok THEN ExecuteFailed(pushed, out)
        ELSE NodeOutcome(
                 [pushed EXCEPT
                     !.histroy = Append(pushed.histroy,
                                        Chat("assistant", response_text))],
                 out, Ok(response_text))

\* mutant: the system turn is inserted also when a role was already set
role_always_inserts(n, r) ==
    LET n1 == [n EXCEPT !.role = r]
    IN  IF is_none(n1.role) THEN [node |-> n1, panicked |-> FALSE]
        ELSE [node |-> [n1 EXCEPT !.histroy =
                            InsertFront(n1.histroy, Chat("system", unwrap(n1.role)))],
              panicked |-> FALSE]

\* the role builder: the node afterwards, and whether histroy[0] was out of range
role(n, r) ==
    LET original_role_is_none == is_none(n.role)
        n1 == [n EXCEPT !.role = r]
    IN  IF is_none(n1.role) THEN [node |-> n1, panicked |-> FALSE]
        ELSE IF original_role_is_none
        THEN [node |-> [n1 EXCEPT !.histroy =
                            InsertFront(n1.histroy, Chat("system", unwrap(n1.role)))],
              panicked |-> FALSE]
        ELSE IF Len(n1.histroy) = 0 THEN [node |-> n1, panicked |-> TRUE]
        ELSE [node |-> [n1 EXCEPT !.histroy[1] = Chat("system", unwrap(n1.role))],
              panicked |-> FALSE]

set_role(n, r) == [n EXCEPT !.role = r]
set_history(n, h) == [n EXCEPT !.histroy = h]
push_history(n, chat) == [n EXCEPT !.histroy = Append(n.histroy, chat)]
set_prompt_prefix(n, p) == [n EXCEPT !.prompt_prefix = p]
set_prompt_suffix(n, p) == [n EXCEPT !.prompt_suffix = p]
set_input(n, i) == [n EXCEPT !.input = i]

(***************************************************************************)
(* Worknode: a uid and a Worknodecore; the AINode variant owns its node,    *)
(* which owns its client.                                                   *)
(***************************************************************************)
Start == [variant |-> "Start"]
End == [variant |-> "End"]
Local == [variant |-> "Local"]
User == [variant |-> "User"]
Worknodecore_AINode(n, c) == [variant |-> "AINode", ai |-> n, client |-> c]

PilotError(error_type, message) ==
    [ok |-> FALSE, error_type |-> "AINodeErr", cause |-> error_type,
     message |-> message]

\* node.execute(input): the node executes on the input it is handed
execute_input(n, c, input, resp) == execute(set_input(n, input), c, resp)

\* the outcome of a call on a core
CoreOutcome(core, r, p, pan) ==
    [core |-> core, result |-> r, posts |-> p, panicked |-> pan]

\* mutant: the placeholder variants hand the input back
PlaceholderExcute_echoes(core, input) == CoreOutcome(core, Ok(input), <<>>, FALSE)

\* the `_` arm of Worknodecore::excute
PlaceholderExcute(core, input) == CoreOutcome(core, Ok(""), <<>>, FALSE)

\* mutant: the node's error is returned without the dispatch layer
AINodeExcute_unlayered(out) ==
    CoreOutcome(Worknodecore_AINode(out.node, out.client),
                out.result, out.posts, out.panicked)

\* the AINode arm of Worknodecore::excute, given what node.execute did:
\* map_err adds the dispatch layer to an error and passes a text through
AINodeExcute(out) ==
    CoreOutcome(Worknodecore_AINode(out.node, out.client),
                IF out.panicked \/ out.result.ok
                THEN out.result
                ELSE PilotError(out.result, "AI node failed to execute"),
                out.posts, out.panicked)

Worknodecore_excute(core, input, resp) ==
    IF core.variant = "AINode"
    THEN AINodeExcute(execute_input(core.ai, core.client, input, resp))
    ELSE PlaceholderExcute(core, input)

Worknode_new(uid, core) == [uid |-> uid, node |-> core]

\* the Worknode after its core has run, and what the core returned
WorknodeOutcome(w, out) ==
    [worknode |-> [w EXCEPT !.node = out.core], result |-> out.result,
     posts |-> out.posts, panicked |-> out.panicked]

Worknode_excute(w, input, resp) ==
    WorknodeOutcome(w, Worknodecore_excute(w.node, input, resp))

get_uid(w) == w.uid
get_node(w) == w.node

\* mutant: replacing the core makes a new Worknode of it
set_node_renews(w, core) ==
    Worknode_new(IF w.uid = "uuid-1" THEN "uuid-2" ELSE "uuid-1", core)

set_node(w, core) == [w EXCEPT !.node = core]

(***************************************************************************)
(* The values the operations are called with.                               *)
(***************************************************************************)
OptionOf(S) == {None} \cup {Some(v) : v \in S}

Urls == {DEEPSEEK_API_URL, "https://api.deepseek.ai/v1/chat/completions"}
Models == {"DeepseekChat", "DeepseekReasoner"}
ApiKeys == {"sk-key"}
PenaltyVals == {F(-21), F(-20), F(20), F(21), NaN}
TemperatureVals == {F(-1), F(0), F(20), F(21), NaN}
TopPVals == {F(-1), F(0), F(10), F(11), NaN}
MaxTokensVals == {0, 1, 8192, 8193, 9000}
TopLogprobsVals == {0, 10}
ResponseFormats == {"Text", "Json"}
StreamOptions == {[include_usage |-> TRUE], [include_usage |-> FALSE]}

\* the chats of the send_request tests
TestChats ==
    <<Chat("system", "You are a helpful assistant"), Chat("user", "Hi")>>

\* the usage objects of a response: a sample of counters, restricted to the
\* keys the response carries (all five, all but one, or none)
UsageSamples ==
    {[completion_tokens |-> 1, prompt_tokens |-> 2, prompt_cache_hit_tokens |-> 0,
      prompt_cache_miss_tokens |-> 2, total_tokens |-> 3],
     [completion_tokens |-> 2, prompt_tokens |-> 1, prompt_cache_hit_tokens |-> 1,
      prompt_cache_miss_tokens |-> 0, total_tokens |-> 3],
     [completion_tokens |-> -1, prompt_tokens |-> 2, prompt_cache_hit_tokens |-> 0,
      prompt_cache_miss_tokens |-> 2, total_tokens |-> 1]}
UsageKeySets ==
    {S \in SUBSET UsageKeys : Cardinality(S) >= Cardinality(UsageKeys) - 1 \/ S = {}}
UsageJsons ==
    {JNull} \cup {JObj([k \in S |-> u[k]]) : S \in UsageKeySets, u \in UsageSamples}
FullUsage(u) == JObj([k \in UsageKeys |-> u[k]])
Contents == {JNull, JStr(""), JStr("hello")}

\* the responses that fail before the body is parsed
FailedResponses ==
    {TransportError}
    \cup {Http(StatusUnauthorized, b) :
            b \in {BodyUnreadable, BodyGarbage,
                   BodyJson(JNull, JNull, JStr("Authentication Fails")),
                   BodyJson(JStr("hello"), JNull, JNull)}}
    \cup {Http(StatusOk, b) : b \in {BodyUnreadable, BodyGarbage}}

Responses ==
    FailedResponses
    \cup {Http(StatusOk, BodyJson(content, usage, JNull)) :
            content \in Contents, usage \in UsageJsons}

\* one response of each kind, with a single sample of usage
FewResponses ==
    {TransportError,
     Http(StatusUnauthorized, BodyJson(JNull, JNull, JStr("Authentication Fails")))}
    \cup {Http(StatusOk, BodyJson(JStr("hello"), FullUsage(u), JNull)) :
            u \in {CHOOSE u \in UsageSamples : u.completion_tokens = 1}}

\* the response is one send_request returns Ok for
WellFormed(resp) ==
    /\ resp.kind = "http"
    /\ is_success(resp.status)
    /\ resp.body.kind = "json"
    /\ ~is_empty(resp.body.json.content)
    /\ resp.body.json.usage.t = "obj"
    /\ DOMAIN resp.body.json.usage.f = UsageKeys

\* the number of generation options that differ from DeepSeekClient::new
Configured(c) ==
    LET base == DeepSeekClient_new(DEEPSEEK_API_URL, "DeepseekChat")
        fields == {"frequency_panalty", "max_tokens", "presence_penalty",
                   "response_format", "stream", "stream_option", "temperature",
                   "top_p", "logprobs", "top_logprobs"}
    IN  Cardinality({f \in fields : c[f] # base[f]})

(***************************************************************************)
(* The client's configuration and its validation gate: the client is        *)
(* configured through its builder, then checked and used.                   *)
(***************************************************************************)
Init ==
    /\ \E url \in Urls, model \in Models : client = DeepSeekClient_new(url, model)
    /\ node = AINode_new
    /\ result = NoResult
    /\ posts = <<>>
    /\ lastResp = None
    /\ lastOp = "new"
    /\ okUsages = <<>>
    /\ worknode = None
    /\ args = <<>>
    /\ panicked = FALSE

Configure(c) ==
    /\ ~panicked
    /\ lastOp \in {"new", "set"}
    /\ Configured(c) <= MaxSetFields
    /\ client' = c
    /\ result' = NoResult
    /\ posts' = <<>>
    /\ lastResp' = None
    /\ lastOp' = "set"
    /\ UNCHANGED <<node, okUsages, panicked, worknode, args>>

SetApiKey == \E v \in OptionOf(ApiKeys) : Configure([client EXCEPT !.api_key = v])
SetFrequencyPanalty ==
    \E v \in OptionOf(PenaltyVals) : Configure([client EXCEPT !.frequency_panalty = v])
SetMaxTokens ==
    \E v \in OptionOf(MaxTokensVals) : Configure([client EXCEPT !.max_tokens = v])
SetPresencePenalty ==
    \E v \in OptionOf(PenaltyVals) : Configure([client EXCEPT !.presence_penalty = v])
SetResponseFormat ==
    \E v \in OptionOf(ResponseFormats) :
        Configure([client EXCEPT !.response_format = v])
SetStream == \E v \in OptionOf(BOOLEAN) : Configure([client EXCEPT !.stream = v])
SetStreamOption ==
    \E v \in OptionOf(StreamOptions) : Configure([client EXCEPT !.stream_option = v])
SetTemperature ==
    \E v \in OptionOf(TemperatureVals) : Configure([client EXCEPT !.temperature = v])
SetTopP == \E v \in OptionOf(TopPVals) : Configure([client EXCEPT !.top_p = v])
SetLogprobs == \E v \in BOOLEAN : Configure([client EXCEPT !.logprobs = v])
SetTopLogprobs ==
    \E v \in OptionOf(TopLogprobsVals) : Configure([client EXCEPT !.top_logprobs = v])

\* a call that returns a value and changes nothing: the state keeps the value
Observe(op, v) ==
    /\ ~panicked
    /\ result' = Ok(v)
    /\ posts' = <<>>
    /\ lastResp' = None
    /\ lastOp' = op
    /\ UNCHANGED <<client, node, okUsages, panicked, worknode, args>>

CheckParams == Observe("check_params", check_params(client))
CheckStreamOption == Observe("check_stream_option", check_stream_option(client))
CheckTopLogprobs == Observe("check_top_logprobs", check_top_logprobs(client))

\* the request body of the history of the crate's serialization test
IntoRequestString ==
    Observe("into_request_string",
            into_request_string(client, chats_to_json(TestChats)))

\* the answer of the service, when the call asked for one
Answered(out, resp) == IF out.posts = <<>> THEN None ELSE Some(resp)

\* the usages of the successful responses so far, with this call's
Recorded(out, resp) ==
    IF out.result.ok /\ ~out.panicked
    THEN Append(okUsages, resp.body.json.usage.f)
    ELSE okUsages

Send(resp) ==
    LET out == send_request(client, TestChats, resp)
    IN  /\ ~panicked
        /\ WellFormed(resp) => Len(okUsages) < MaxCalls
        /\ client' = out.client
        /\ result' = out.result
        /\ posts' = out.posts
        /\ lastResp' = Answered(out, resp)
        /\ panicked' = out.panicked
        /\ lastOp' = "send_request"
        /\ okUsages' = Recorded(out, resp)
        /\ UNCHANGED <<node, worknode, args>>

SendRequest == \E resp \in FewResponses : Send(resp)

Next ==
    \/ SetApiKey \/ SetFrequencyPanalty \/ SetMaxTokens
    \/ SetPresencePenalty \/ SetResponseFormat \/ SetStream \/ SetStreamOption
    \/ SetTemperature \/ SetTopP \/ SetLogprobs \/ SetTopLogprobs
    \/ CheckParams \/ CheckStreamOption \/ CheckTopLogprobs
    \/ IntoRequestString \/ SendRequest

Spec == Init /\ [][Next]_vars

(***************************************************************************)
(* The request/response cycle of a client: every answer of the service.     *)
(***************************************************************************)
CycleInit ==
    /\ \E url \in Urls, key \in OptionOf(ApiKeys) :
           client = [DeepSeekClient_new(url, "DeepseekChat") EXCEPT !.api_key = key]
    /\ node = AINode_new
    /\ result = NoResult
    /\ posts = <<>>
    /\ lastResp = None
    /\ lastOp = "new"
    /\ okUsages = <<>>
    /\ worknode = None
    /\ args = <<>>
    /\ panicked = FALSE

SetUrl ==
    \E v \in Urls :
        /\ ~panicked
        /\ client' = [client EXCEPT !.url = v]
        /\ result' = NoResult
        /\ posts' = <<>>
        /\ lastResp' = None
        /\ lastOp' = "set"
        /\ UNCHANGED <<node, okUsages, panicked, worknode, args>>

SendRequestCycle == \E resp \in Responses : Send(resp)

CycleNext == SetUrl \/ SendRequestCycle

SpecCycle == CycleInit /\ [][CycleNext]_vars

(***************************************************************************)
(* The AINode: its builders and setters, and execute over its client.       *)
(***************************************************************************)
RoleVals == {"X", "Y"}
Prefixes == {"", "P"}
Suffixes == {"", "S"}
Inputs == {"", "in"}
PushedChats == {Chat("user", "q")}
Histories == {<<>>, <<Chat("user", "q")>>}

\* one response of each kind the node can meet
NodeResponses ==
    FewResponses \cup {Http(StatusOk, BodyJson(JStr("hello"), JNull, JNull))}

NodeInit ==
    /\ \E key \in OptionOf(ApiKeys) :
           client = [DeepSeekClient_new(DEEPSEEK_API_URL, "DeepseekChat")
                        EXCEPT !.api_key = key]
    /\ node = AINode_new
    /\ result = NoResult
    /\ posts = <<>>
    /\ lastResp = None
    /\ lastOp = "new"
    /\ okUsages = <<>>
    /\ worknode = None
    /\ args = <<>>
    /\ panicked = FALSE

\* a builder or setter of the node
NodeStep(op, n) ==
    /\ ~panicked
    /\ Len(n.histroy) <= MaxHist
    /\ node' = n
    /\ result' = NoResult
    /\ posts' = <<>>
    /\ lastResp' = None
    /\ lastOp' = op
    /\ UNCHANGED <<client, okUsages, panicked, worknode, args>>

\* the prompt is composed before the node is first used
Composing == lastOp \in {"new", "compose"}

PromptPrefix ==
    \E p \in Prefixes : Composing /\ NodeStep("compose", set_prompt_prefix(node, p))
PromptSuffix ==
    \E p \in Suffixes : Composing /\ NodeStep("compose", set_prompt_suffix(node, p))
Input == \E i \in Inputs : Composing /\ NodeStep("compose", set_input(node, i))

Role ==
    \E r \in OptionOf(RoleVals) :
        LET out == role(node, r)
        IN  /\ ~panicked
            /\ Len(out.node.histroy) <= MaxHist
            /\ node' = out.node
            /\ panicked' = out.panicked
            /\ result' = NoResult
            /\ posts' = <<>>
            /\ lastResp' = None
            /\ lastOp' = "role"
            /\ UNCHANGED <<client, okUsages, worknode, args>>

SetRole == \E r \in OptionOf(RoleVals) : NodeStep("set_role", set_role(node, r))
History == \E h \in Histories : NodeStep("history", set_history(node, h))
SetHistory == \E h \in Histories : NodeStep("set_history", set_history(node, h))
PushHistory == \E chat \in PushedChats : NodeStep("push_history", push_history(node, chat))

Execute ==
    \E resp \in NodeResponses :
        LET out == execute(node, client, resp)
        IN  /\ ~panicked
            /\ WellFormed(resp) => Len(okUsages) < MaxCalls
            /\ Len(out.node.histroy) <= MaxHist
            /\ node' = out.node
            /\ client' = out.client
            /\ result' = out.result
            /\ posts' = out.posts
            /\ lastResp' = Answered(out, resp)
            /\ panicked' = out.panicked
            /\ lastOp' = "execute"
            /\ okUsages' = Recorded(out, resp)
            /\ UNCHANGED <<worknode, args>>

NodeNext ==
    \/ PromptPrefix \/ PromptSuffix \/ Input
    \/ Role \/ SetRole \/ History \/ SetHistory \/ PushHistory
    \/ Execute

SpecNode == NodeInit /\ [][NodeNext]_vars

(***************************************************************************)
(* A node driven by its role builder and execute alone.                     *)
(***************************************************************************)
RoleNext == Role \/ Execute

SpecRole == NodeInit /\ [][RoleNext]_vars

(***************************************************************************)
(* The Worknode: dispatch to its core, its uid, and the replacement of the  *)
(* core.                                                                    *)
(***************************************************************************)
\* the values Uuid::new_v4() may draw
Uids == {"uuid-1", "uuid-2"}

\* the nodes and clients of the worknode tests, with and without the key
Cores ==
    {Start, End, Local, User}
    \cup {Worknodecore_AINode(n,
              [DeepSeekClient_new("https://api.deepseek.ai/v1/chat/completions",
                                  "DeepseekChat") EXCEPT !.api_key = key]) :
            n \in {AINode_new, role(AINode_new, Some("X")).node},
            key \in OptionOf(ApiKeys)}

WorkInit ==
    /\ \E uid \in Uids, core \in Cores : worknode = Worknode_new(uid, core)
    /\ client = DeepSeekClient_new(DEEPSEEK_API_URL, "DeepseekChat")
    /\ node = AINode_new
    /\ result = NoResult
    /\ posts = <<>>
    /\ lastResp = None
    /\ lastOp = "new"
    /\ okUsages = <<>>
    /\ panicked = FALSE
    /\ args = <<>>

\* a call on the Worknode that issues no request
WorkStep(op, w, r) ==
    /\ ~panicked
    /\ worknode' = w
    /\ result' = r
    /\ posts' = <<>>
    /\ lastResp' = None
    /\ lastOp' = op
    /\ args' = <<>>
    /\ UNCHANGED <<client, node, okUsages, panicked>>

GetUid == WorkStep("get_uid", worknode, Ok(get_uid(worknode)))
GetNode == WorkStep("get_node", worknode, Ok(get_node(worknode)))
SetNode == \E core \in Cores : WorkStep("set_node", set_node(worknode, core), NoResult)

\* the history of the core's node, if it has one
CoreHistory(core) == IF core.variant = "AINode" THEN core.ai.histroy ELSE <<>>

Excuted(out, input, resp) ==
    /\ ~panicked
    /\ Len(CoreHistory(out.worknode.node)) <= MaxHist
    /\ worknode' = out.worknode
    /\ result' = out.result
    /\ posts' = out.posts
    /\ lastResp' = Answered(out, resp)
    /\ panicked' = out.panicked
    /\ lastOp' = "excute"
    /\ args' = <<input>>
    /\ UNCHANGED <<client, node, okUsages>>

Excute ==
    \E input \in Inputs, resp \in NodeResponses :
        Excuted(Worknode_excute(worknode, input, resp), input, resp)

WorkNext == GetUid \/ GetNode \/ SetNode \/ Excute

SpecWork == WorkInit /\ [][WorkNext]_vars

(***************************************************************************)
(* Sums of usages: the operands are added from the left, as `a + b + c`.    *)
(***************************************************************************)
UsageOperands ==
    {DeepSeekUsage_new} \cup UsageSamples
    \cup {[completion_tokens |-> 100, prompt_tokens |-> 200,
           prompt_cache_hit_tokens |-> 50, prompt_cache_miss_tokens |-> 150,
           total_tokens |-> 300]}

UsageInit ==
    /\ args \in [1..MaxOperands -> UsageOperands]
    /\ client = DeepSeekClient_new(DEEPSEEK_API_URL, "DeepseekChat")
    /\ node = AINode_new
    /\ result = NoResult
    /\ posts = <<>>
    /\ lastResp = None
    /\ lastOp = "new"
    /\ okUsages = <<>>
    /\ panicked = FALSE
    /\ worknode = None

\* the two leftmost operands are added
AddUsage ==
    /\ Len(args) >= 2
    /\ args' = <<Add(args[1], args[2])>> \o SubSeq(args, 3, Len(args))
    /\ result' = Ok(Add(args[1], args[2]))
    /\ lastOp' = "add"
    /\ UNCHANGED <<client, node, posts, lastResp, okUsages, panicked, worknode>>

UsageNext == AddUsage

SpecUsage == UsageInit /\ [][UsageNext]_vars

(***************************************************************************)
(* Properties of the validation gate, checked under Spec.                   *)
(***************************************************************************)
RequestParamError ==
    DeepSeekError("RequestParamError", "The parameters are not valid.")

\* C1: a send_request called while check_params() is false returns the
\* RequestParamError and issues no POST; no call panics on the api_key
\* unwrap, and a POST is issued only by a client whose api_key is present.
C1_InvalidParamsNeverReachTheNetwork ==
    [][lastOp' = "send_request" =>
          /\ ~check_params(client) => result' = RequestParamError /\ posts' = <<>>
          /\ ~panicked'
          /\ posts' # <<>> => is_some(client.api_key)]_vars

\* an out-of-range option with the api key present was refused
C1_Witness ==
    /\ lastOp = "send_request"
    /\ is_some(client.api_key)
    /\ ~check_max_tokens(client)
    /\ result = RequestParamError
    /\ posts = <<>>

\* the value v lies in [lo, hi] (tenths); NaN lies in no interval
InRangeF(v, lo, hi) == ~v.nan /\ lo <= v.tenths /\ v.tenths <= hi

\* the conditions C2 lists
ClaimedValid(c) ==
    /\ is_some(c.frequency_panalty) => InRangeF(unwrap(c.frequency_panalty), -20, 20)
    /\ is_some(c.presence_penalty) => InRangeF(unwrap(c.presence_penalty), -20, 20)
    /\ is_some(c.max_tokens) => unwrap(c.max_tokens) \in 1..8192
    /\ is_some(c.temperature) => InRangeF(unwrap(c.temperature), 0, 20)
    /\ is_some(c.top_p) => InRangeF(unwrap(c.top_p), 0, 10)
    /\ is_some(c.stream_option) => c.stream = Some(TRUE)
    /\ is_some(c.top_logprobs) => c.logprobs
    /\ is_some(c.api_key)

\* C2: check_params() returns true exactly when every set option lies in its
\* range (bounds included), both option dependencies hold and the api key is
\* present.
C2_CheckParamsIsTheConjunction ==
    lastOp = "check_params" => (result.value <=> ClaimedValid(client))

\* C3: check_stream_option passes exactly when stream_option is unset or
\* stream is Some(true); a stream_option set with stream unset or Some(false)
\* makes check_params fail.
C3_StreamOptionNeedsStream ==
    /\ lastOp = "check_stream_option" =>
           (result.value <=>
               (is_none(client.stream_option) \/ client.stream = Some(TRUE)))
    /\ (lastOp = "check_params" /\ is_some(client.stream_option)
            /\ client.stream # Some(TRUE)) => result.value = FALSE

\* a stream_option with the default stream was refused although the key is set
C3_Witness ==
    /\ lastOp = "check_params"
    /\ is_some(client.stream_option)
    /\ is_none(client.stream)
    /\ is_some(client.api_key)
    /\ result.value = FALSE

\* C4: check_top_logprobs passes exactly when logprobs is true or
\* top_logprobs is unset; top_logprobs set with logprobs false makes
\* check_params fail.
C4_TopLogprobsNeedsLogprobs ==
    /\ lastOp = "check_top_logprobs" =>
           (result.value <=> (client.logprobs \/ is_none(client.top_logprobs)))
    /\ (lastOp = "check_params" /\ is_some(client.top_logprobs) /\ ~client.logprobs)
           => result.value = FALSE

\* top_logprobs was accepted with logprobs true
C4_Witness ==
    /\ lastOp = "check_top_logprobs"
    /\ client.logprobs
    /\ is_some(client.top_logprobs)
    /\ result.value = TRUE

(***************************************************************************)
(* Properties of the AINode, checked under SpecNode.                        *)
(***************************************************************************)
\* the user turn execute builds from the node n
UserTurn(n) ==
    Chat("user", n.prompt_prefix \o "\n" \o n.input \o "\n" \o n.prompt_suffix)

\* C5: a successful execute() appends to the history the user turn
\* prefix + "\n" + input + "\n" + suffix and then an assistant turn with the
\* text it returns, and changes no earlier entry.
C5_SuccessAppendsUserThenAssistant ==
    [][(lastOp' = "execute" /\ result'.ok /\ ~panicked') =>
          node'.histroy =
              node.histroy \o <<UserTurn(node), Chat("assistant", result'.value)>>]_vars

\* execute succeeded with an empty prefix and an empty suffix
C5_Witness ==
    /\ lastOp = "execute"
    /\ result.ok
    /\ node.prompt_prefix = ""
    /\ node.prompt_suffix = ""
    /\ Len(node.histroy) >= 2
    /\ node.histroy[Len(node.histroy)] = Chat("assistant", "hello")
    /\ node.histroy[Len(node.histroy) - 1] = Chat("user", "\n" \o node.input \o "\n")

\* C6: a failed execute() leaves the history it found with one user turn
\* appended; the client was called with that turn already in the history, and
\* a failed execute() after a failed execute() leaves two user turns in a row.
C6_FailureKeepsTheUserTurn ==
    [][(lastOp' = "execute" /\ ~result'.ok) =>
          /\ node'.histroy = Append(node.histroy, UserTurn(node))
          /\ posts' # <<>> =>
                 posts'[1].body.messages =
                     [i \in 1..Len(node'.histroy) |->
                         [content |-> node'.histroy[i].content,
                          role |-> node'.histroy[i].role]]
          /\ (lastOp = "execute" /\ ~result.ok) =>
                 /\ node'.histroy[Len(node'.histroy)].role = "user"
                 /\ node'.histroy[Len(node'.histroy) - 1].role = "user"]_vars

\* a request the service refused left a second user turn after the first
C6_Witness ==
    /\ lastOp = "execute"
    /\ ~result.ok
    /\ result.cause.error_type = "RequestError"
    /\ Len(node.histroy) >= 2
    /\ node.histroy[Len(node.histroy)].role = "user"
    /\ node.histroy[Len(node.histroy) - 1].role = "user"

\* C7: whenever role is Some(r), the history is non-empty and its first
\* entry is the system turn with content r.
C7_RoleIsTheSystemTurn ==
    is_some(node.role) =>
        /\ Len(node.histroy) > 0
        /\ node.histroy[1] = Chat("system", unwrap(node.role))

\* C8: the role builder called with Some(X) on a node without role puts the
\* system turn X in front of the history; called again with Some(Y) it
\* replaces the first entry by the system turn Y and keeps the rest.
C8_RoleInsertsThenReplaces ==
    [][(lastOp' = "role" /\ is_some(node'.role)) =>
          /\ is_none(node.role) =>
                 /\ ~panicked'
                 /\ node'.histroy =
                        <<Chat("system", unwrap(node'.role))>> \o node.histroy
          /\ (is_some(node.role) /\ (lastOp = "role" \/ Len(node.histroy) > 0)) =>
                 /\ ~panicked'
                 /\ Len(node'.histroy) = Len(node.histroy)
                 /\ node'.histroy[1] = Chat("system", unwrap(node'.role))
                 /\ \A i \in 2..Len(node.histroy) :
                        node'.histroy[i] = node.histroy[i]]_vars

\* the builder has put the system turn Y in front of an earlier turn
C8_Witness ==
    /\ lastOp = "role"
    /\ node.role = Some("Y")
    /\ Len(node.histroy) = 2
    /\ node.histroy[1] = Chat("system", "Y")
    /\ node.histroy[2].role = "user"

(***************************************************************************)
(* Properties of the usage accounting, checked under SpecCycle.             *)
(***************************************************************************)
RECURSIVE SumOf(_, _)
SumOf(us, k) == IF us = <<>> THEN 0 ELSE us[1][k] + SumOf(Tail(us), k)

\* C9: total_usage is the field-wise sum of the counters of the successful
\* responses so far, and last_usage the counters of the latest of them (all
\* zero when there is none).
C9_UsageIsTheSumOfTheSuccesses ==
    \A k \in UsageKeys :
        /\ client.total_usage[k] = SumOf(okUsages, k)
        /\ client.last_usage[k] =
               IF okUsages = <<>> THEN 0 ELSE okUsages[Len(okUsages)][k]

\* two successful responses with different counters were accounted
C9_Witness ==
    /\ lastOp = "send_request"
    /\ result.ok
    /\ Len(okUsages) = 2
    /\ okUsages[1] # okUsages[2]
    /\ client.total_usage.completion_tokens = 3

\* the parsed 2xx response lacks the content or a part of the usage
Malformed(resp) ==
    /\ resp.kind = "http"
    /\ is_success(resp.status)
    /\ resp.body.kind = "json"
    /\ \/ resp.body.json.content \in {JNull, JStr("")}
       \/ resp.body.json.usage = JNull
       \/ /\ resp.body.json.usage.t = "obj"
          /\ DOMAIN resp.body.json.usage.f # UsageKeys

\* C10: a 2xx response whose content is absent or empty, or whose usage is
\* absent, empty or lacks one of the five counters, makes send_request fail
\* with the ResponseError and leaves last_usage and total_usage as they were.
C10_MalformedResponseChangesNoUsage ==
    [][(lastOp' = "send_request" /\ is_some(lastResp')
            /\ Malformed(unwrap(lastResp'))) =>
          /\ ~result'.ok
          /\ result'.error_type = "ResponseError"
          /\ client'.last_usage = client.last_usage
          /\ client'.total_usage = client.total_usage]_vars

\* after a success, a response with four of the five counters was refused
C10_Witness ==
    /\ lastOp = "send_request"
    /\ is_some(lastResp)
    /\ Malformed(unwrap(lastResp))
    /\ unwrap(lastResp).body.json.usage # JNull
    /\ Cardinality(DOMAIN unwrap(lastResp).body.json.usage.f) = 4
    /\ ~result.ok
    /\ okUsages # <<>>
    /\ client.last_usage = [k \in UsageKeys |-> okUsages[Len(okUsages)][k]]

(***************************************************************************)
(* C11: the serialized request carries the history and, under the keys of   *)
(* the service (frequency_penalty among them), every option with its        *)
(* stored value or, unset, its default.                                     *)
(***************************************************************************)
ClaimedRequest(c, msg) ==
    [messages |-> msg,
     model |-> ModelToString(c.model),
     frequency_penalty |-> JsonF64(unwrap_or(c.frequency_panalty, F(0))),
     max_tokens |-> unwrap_or(c.max_tokens, 4096),
     presence_penalty |-> JsonF64(unwrap_or(c.presence_penalty, F(0))),
     response_format |->
         [type |-> ResponseFormatToString(unwrap_or(c.response_format, "Text"))],
     stop |-> JNull,
     stream |-> unwrap_or(c.stream, FALSE),
     stream_options |->
         IF is_some(c.stream_option)
         THEN [t |-> "obj", include_usage |-> unwrap(c.stream_option).include_usage]
         ELSE JNull,
     temperature |-> JsonF64(unwrap_or(c.temperature, F(10))),
     top_p |-> JsonF64(unwrap_or(c.top_p, F(10))),
     tools |-> JNull,
     tool_choice |-> "none",
     logprobs |-> c.logprobs,
     top_logprobs |->
         IF is_some(c.top_logprobs) THEN JNum(unwrap(c.top_logprobs)) ELSE JNull]

\* C11: serializing the history [system, user] yields the claimed request
\* object, with the frequency penalty under the key "frequency_penalty"
C11_RequestHasTheClaimedKeysAndValues ==
    lastOp = "into_request_string" =>
        result.value = ClaimedRequest(client, chats_to_json(TestChats))

(***************************************************************************)
(* C12: the address of the POST.                                            *)
(***************************************************************************)
\* C12: every POST of send_request is addressed to the URL configured on the
\* client, so the default endpoint is used only when it is the configured one
C12_PostsGoToTheConfiguredUrl ==
    lastOp = "send_request" =>
        \A i \in 1..Len(posts) :
            /\ posts[i].url = client.url
            /\ posts[i].url = DEEPSEEK_API_URL => client.url = DEEPSEEK_API_URL

(***************************************************************************)
(* C13: serialization and send_request substitute defaults in the request   *)
(* only.                                                                    *)
(***************************************************************************)
OptionFields ==
    {"frequency_panalty", "max_tokens", "presence_penalty", "response_format",
     "stream", "stream_option", "temperature", "top_p", "logprobs",
     "top_logprobs"}

\* C13: into_request_string and send_request, succeeding or failing, leave
\* every stored option as it was: an unset one stays None, a set one keeps
\* its value
C13_NoDefaultIsWrittenBack ==
    [][lastOp' \in {"into_request_string", "send_request"} =>
          \A f \in OptionFields : client'[f] = client[f]]_vars

\* a successful send_request put the default max_tokens and a set
\* temperature in the request, and max_tokens is still unset
C13_Witness ==
    /\ lastOp = "send_request"
    /\ result.ok
    /\ posts # <<>>
    /\ is_none(client.max_tokens)
    /\ posts[1].body.max_tokens = default_max_tokens
    /\ is_some(client.temperature)
    /\ posts[1].body.temperature = unwrap(client.temperature)

(***************************************************************************)
(* Properties of the Worknode, checked under SpecWork.                      *)
(***************************************************************************)
\* the answer the node's client met in the call, if it asked for one
AnswerOf(r) == IF is_some(r) THEN unwrap(r) ELSE TransportError

\* what dispatch returned, against what the node's own execute returns
Layered(out) ==
    /\ out.result.ok => result' = out.result
    /\ ~out.result.ok =>
          /\ ~result'.ok
          /\ result'.error_type = "AINodeErr"
          /\ result'.message = "AI node failed to execute"
          /\ result'.cause = out.result
          /\ result'.cause.error_type = "DeepSeekError"
          /\ result'.cause.message = "Failed to send request to DeepSeek"
          /\ result'.cause.cause \in
                 {DeepSeekError(t, result'.cause.cause.message) :
                    t \in {"RequestParamError", "RequestError", "ResponseError"}}

\* C14: dispatch on the AINode variant returns the node's text unchanged, and
\* returns the node's error unchanged under exactly one added layer with the
\* message "AI node failed to execute"
C14_DispatchAddsOneLayer ==
    [][(lastOp' = "excute" /\ worknode.node.variant = "AINode" /\ ~panicked') =>
          Layered(execute_input(worknode.node.ai, worknode.node.client,
                                args'[1], AnswerOf(lastResp')))]_vars

\* the service refused the request of an AINode worknode
C14_Witness ==
    /\ lastOp = "excute"
    /\ worknode.node.variant = "AINode"
    /\ posts # <<>>
    /\ ~result.ok
    /\ result.message = "AI node failed to execute"
    /\ result.cause.message = "Failed to send request to DeepSeek"
    /\ result.cause.cause.error_type = "RequestError"

\* C15: dispatch on Start, End, Local or User returns Ok("") for every
\* input, issues no POST and leaves the Worknode as it was
C15_PlaceholdersReturnEmpty ==
    [][(lastOp' = "excute"
            /\ worknode.node.variant \in {"Start", "End", "Local", "User"}) =>
          /\ result' = Ok("")
          /\ posts' = <<>>
          /\ worknode' = worknode
          /\ ~panicked']_vars

\* a User worknode was handed a non-empty input
C15_Witness ==
    /\ lastOp = "excute"
    /\ worknode.node = User
    /\ args = <<"in">>
    /\ result = Ok("")

\* C16: excute and set_node never change the uid, and get_uid returns it
C16_UidIsFixed ==
    [][/\ worknode'.uid = worknode.uid
       /\ lastOp' = "get_uid" => result' = Ok(worknode.uid)]_vars

\* the core was replaced by a placeholder; the uid is one new() may draw
C16_Witness ==
    /\ lastOp = "set_node"
    /\ worknode.node.variant = "Start"
    /\ get_uid(worknode) = "uuid-2"

(***************************************************************************)
(* Properties of the usage addition, checked under SpecUsage.               *)
(***************************************************************************)
\* C17: usage addition is associative and commutative, and the all-zero
\* usage of DeepSeekUsage::new() is its left and right identity, on all five
\* counters
C17_UsageAdditionIsACommutativeMonoid ==
    \A i, j, k \in 1..Len(args) :
        /\ Add(Add(args[i], args[j]), args[k]) = Add(args[i], Add(args[j], args[k]))
        /\ Add(args[i], args[j]) = Add(args[j], args[i])
        /\ Add(DeepSeekUsage_new, args[i]) = args[i]
        /\ Add(args[i], DeepSeekUsage_new) = args[i]

\* two different usages, one with cache hits, were added to a third
C17_Witness ==
    /\ lastOp = "add"
    /\ Len(args) = 2
    /\ result = Ok(args[1])
    /\ args[2].prompt_cache_hit_tokens > 0
    /\ args[1] # args[2]
    /\ \E a, b \in UsageSamples : a # b /\ args[1] = Add(a, b)

(***************************************************************************)
(* C18: the direction of the accumulation, checked under SpecCycle.         *)
(***************************************************************************)
\* C18: from one send_request to the next, whatever counters a well-formed
\* response carries, no counter of total_usage decreases
C18_TotalUsageNeverDecreases ==
    [][lastOp' = "send_request" =>
          \A k \in UsageKeys : client'.total_usage[k] >= client.total_usage[k]]_vars

(***************************************************************************)
(* C19: the number of POSTs of one call, checked under SpecCycle.           *)
(***************************************************************************)
\* C19: a send_request issues at most one POST, and exactly one when the
\* validation passes: a transport failure, a non-2xx status or a malformed
\* response ends the call with its error and without a second POST
C19_OnePostPerCall ==
    [][lastOp' = "send_request" =>
          /\ Len(posts') <= 1
          /\ check_params(client) => Len(posts') = 1
          /\ (is_some(lastResp') /\ ~WellFormed(unwrap(lastResp'))) =>
                 ~result'.ok /\ Len(posts') = 1]_vars

\* the request could not be sent: one POST, and the transport error
C19_Witness ==
    /\ lastOp = "send_request"
    /\ lastResp = Some(TransportError)
    /\ result = DeepSeekError("RequestError", "Failed to send request.")
    /\ Len(posts) = 1

(***************************************************************************)
(* C20: the system turns of a node driven by role and execute, checked      *)
(* under SpecRole.                                                          *)
(***************************************************************************)
SystemTurns(h) == {i \in 1..Len(h) : h[i].role = "system"}

\* C20: after any sequence of role builder calls and execute calls on a new
\* node, the history has at most one system turn, and it is the first entry
C20_AtMostOneSystemTurn == SystemTurns(node.histroy) \subseteq {1}

(***************************************************************************)
(* C21: the index 0 the role builder writes to, checked under SpecNode.     *)
(***************************************************************************)
\* C21: in every state reached through the builders, the setters and
\* execute, a node whose role is Some has a non-empty history, and the role
\* builder has not panicked on histroy[0]
C21_RoleNeverIndexesOutOfRange ==
    /\ ~panicked
    /\ is_some(node.role) => Len(node.histroy) > 0

====
